---------------------------- MODULE Spec2Model ----------------------------
(***************************************************************************)
(* Model of FeaturePreprocessor (src/FeaturePreprocessor.py): the          *)
(* constructor, which validates the caller's latitude axis against the    *)
(* spectral engine's, and scalar_center_and_rotate, which validates its   *)
(* inputs and then drives the engine: set_angles_ZYZ, analys, apply_real, *)
(* set_angles_ZYZ, apply_real, synth.                                     *)
(*                                                                         *)
(* Angles are integer degrees.  A radian value n*pi/d is the pair <<n,d>> *)
(* in lowest terms, so deg2rad is a real conversion and not the identity. *)
(* The contents of an array are a chain: the sequence of the operations   *)
(* that produced them from the caller's data.  The engine's transforms    *)
(* are opaque: two contents are equal iff their chains are equal.         *)
(* Latitudes are integer micro-degrees.                                    *)
(***************************************************************************)
EXTENDS Integers, Sequences, FiniteSets, TLC

VARIABLES
    fp,         \* fp[i]: instance i (attributes stored by __init__, or the failure)
    rotation,   \* rotation[i]: self.rotation of instance i (angles, who set them)
    mode,       \* how the callers share instances: serialized, private, shared
    lock,       \* the caller holding the callers' mutex (0: free), mode serialized
    pc,         \* pc[t]: caller t's position in scalar_center_and_rotate
    call,       \* call[t]: the arguments of t's current (or last) call
    loc,        \* loc[t]: the call's local variables
    field,      \* field[t]: the caller's array object
    pre,        \* pre[t]: the rotation operator and the field as the call began
    log,        \* log[t]: the engine operations the call has performed
    out,        \* out[t]: how the call ended
    ncalls      \* ncalls[t]: calls started by caller t

vars == <<fp, rotation, mode, lock, pc, call, loc, field, pre, log, out, ncalls>>

---------------------------------------------------------------------------
(* Bounds of the model *)

\* calls made, by all callers together
MaxCalls == 2
\* latitude samples of a grid: 2..MaxNLat
MaxNLat == 2

Threads == {1, 2}
Instances == {1, 2}

---------------------------------------------------------------------------
(* Numbers *)

Abs(x) == IF x < 0 THEN -x ELSE x

RECURSIVE GCD(_, _)
GCD(a, b) == IF b = 0 THEN a ELSE GCD(b, a % b)

\* np.deg2rad: x degrees is x*pi/180, kept exactly as <<n, d>> in lowest terms
deg2rad(x) ==
    IF x = 0 THEN <<0, 1>>
    ELSE LET g == GCD(Abs(x), 180) IN <<x \div g, 180 \div g>>

\* the literals of the second rotation, line 118: 0 and -np.pi/2
RadZero == <<0, 1>>
RadMinusHalfPi == <<-1, 2>>

Reverse(s) == [i \in 1..Len(s) |-> s[Len(s) + 1 - i]]

---------------------------------------------------------------------------
(* The engine's latitude axis (shtns), in micro-degrees, north to south as *)
(* asin(cos_theta) gives it.                                               *)

\* sht_reg_dct: equally spaced colatitudes theta_k = pi*(k - 1/2)/nlat
RegularLat(nlat) ==
    [k \in 1..nlat |-> 90000000 - ((2 * k - 1) * 90000000) \div nlat]

\* sht_quick_init (gaussian): the Gauss-Legendre nodes
GaussianLat(nlat) ==
    CASE nlat = 2 -> <<35264390, -35264390>>
      [] nlat = 3 -> <<50768479, 0, -50768479>>
      [] OTHER    -> RegularLat(nlat)

\* np.rad2deg(np.arcsin(self.transform.cos_theta)) after set_grid
EngineLat(gridtype, nlat) ==
    IF gridtype = "gaussian" THEN GaussianLat(nlat) ELSE RegularLat(nlat)

\* np.allclose(a, b): |a - b| <= atol + rtol*|b|, atol = 1e-8, rtol = 1e-5,
\* elementwise; in micro-degrees that is 100000*|a - b| <= 1000 + |b|, and
\* for whole |a - b| the same as |a - b| <= (1000 + |b|) div 100000
allclose(a, b) ==
    \A i \in 1..Len(a) : Abs(a[i] - b[i]) <= (1000 + Abs(b[i])) \div 100000

---------------------------------------------------------------------------
(* Values *)

\* an Euler triple (z, y, z) of radians
Triple(z1, y, z2) == <<z1, y, z2>>
NoTriple == Triple(RadZero, RadZero, RadZero)

\* one operation of a chain
Step(op, a, d) == [op |-> op, a |-> a, d |-> d]

\* the array a caller holds: data of its own, not yet transformed
\* ndim: len(shape); shape: "grid" iff the shape is (len(lat), len(lon));
\* kind: an ndarray, or an array-like (a nested list) np.asarray converts
Array(ndim, shape, dtype, kind) ==
    [ndim |-> ndim, shape |-> shape, dtype |-> dtype, kind |-> kind,
     val |-> <<Step("data", NoTriple, dtype)>>]

NoArray == [ndim |-> 0, shape |-> "none", dtype |-> "none", kind |-> "none", val |-> <<>>]

\* the return value None
None == [none |-> TRUE, val |-> <<>>]
Returned(v) == [none |-> FALSE, val |-> v]

NoCall == [data2d |-> NoArray, clat |-> 0, clon |-> 0, angle |-> 0, inplace |-> FALSE]
NoLocals == [clon |-> 0, zangle |-> 0, yangle |-> 0, rotation_angle |-> 0,
             data2d_sh |-> <<>>, data2d_rotated_sh |-> <<>>]
NoOutcome == [status |-> "none", err |-> "none", ret |-> None]

NoInstance == [state |-> "none", lat |-> <<>>, nlat |-> 0, nlon |-> 0,
               ntrunc |-> 0, gridtype |-> "none"]
NoRotation == [init |-> FALSE, angles |-> NoTriple, setter |-> <<0, 0>>]

\* ntrunc : int = 85
DefaultNtrunc == 85

---------------------------------------------------------------------------
(* __init__ *)

\* Mutation: the engine's latitudes taken as they come, without [::-1]
transform_lat_unreversed(gridtype, nlat) == EngineLat(gridtype, nlat)

\* transform_lat = np.rad2deg(np.arcsin(self.transform.cos_theta))[::-1]
transform_lat(gridtype, nlat) == Reverse(EngineLat(gridtype, nlat))

\* if not np.allclose(transform_lat, lat): raise RuntimeError(...)
LatitudesMatch(lat, gridtype) == allclose(transform_lat(gridtype, Len(lat)), lat)

\* the instance __init__ leaves: its attributes, and whether it was raised from
NewInstance(lat, ntrunc, gridtype) ==
    [state |-> IF LatitudesMatch(lat, gridtype) THEN "ready" ELSE "failed",
     lat |-> lat, nlat |-> Len(lat), nlon |-> 2 * Len(lat),
     ntrunc |-> ntrunc, gridtype |-> gridtype]

\* self.rotation = shtns.rotation(lmax, mmax): reached only past the check
NewRotation(inst) ==
    IF inst.state = "ready"
    THEN [init |-> TRUE, angles |-> NoTriple, setter |-> <<0, 0>>]
    ELSE NoRotation

\* FeaturePreprocessor(lat, lon, ntrunc, gridtype) for instance i
Construct(i, lat, gridtype) ==
    /\ fp[i].state # "ready"
    /\ \A t \in Threads : pc[t] = "idle"
    /\ i = 1 \/ (mode = "private" /\ fp[1].state = "ready")
    /\ LET inst == NewInstance(lat, DefaultNtrunc, gridtype) IN
         /\ fp' = [fp EXCEPT ![i] = inst]
         /\ rotation' = [rotation EXCEPT ![i] = NewRotation(inst)]
    /\ UNCHANGED <<mode, lock, pc, call, loc, field, pre, log, out, ncalls>>

---------------------------------------------------------------------------
(* scalar_center_and_rotate: the input checks, lines 80-99 *)

\* Mutation: no shift of a negative longitude
NormalizeLonNoShift(clon) == clon

\* if clon < 0: clon += 360
NormalizeLon(clon) == IF clon < 0 THEN clon + 360 ELSE clon

\* if len(data2d.shape) != 2
NotTwoDimensional(data2d) == data2d.ndim # 2

\* if clon > 360 or clon < 0 (after the shift)
LonOutOfRange(clon) == clon > 360 \/ clon < 0

\* Mutation: the latitude checked against its upper bound only
LatUpperBoundOnly(clat) == clat > 90

\* if clat > 90 or clat < -90
LatOutOfRange(clat) == clat > 90 \/ clat < -90

\* Mutation: the angle not checked at all
AngleNotChecked(angle) == FALSE

\* Mutation: the angle checked against a half-open range
AngleHalfOpen(angle) == angle < 0 \/ angle >= 360

\* if angle < 0 or angle > 360
AngleOutOfRange(angle) == angle < 0 \/ angle > 360

\* the ValueError the checks raise, by its message, in the order of the code
Validate(data2d, clat, clon, angle) ==
    IF NotTwoDimensional(data2d) THEN "data2d must be a 2d array"
    ELSE IF LonOutOfRange(NormalizeLon(clon)) THEN "clon must be in the range"
    ELSE IF LatOutOfRange(clat) THEN "clat must be in the range"
    ELSE IF AngleOutOfRange(angle) THEN "angle must be in the range"
    ELSE "none"

ShapeError == {"data2d must be a 2d array"}
RangeError == {"clon must be in the range", "clat must be in the range",
               "angle must be in the range"}

---------------------------------------------------------------------------
(* scalar_center_and_rotate: the rotation angles, lines 101-118 *)

\* Mutation: the difference taken the other way round
ZAngleSwapped(clon) == clon - 180

\* zangle = 180 - clon
ZAngle(clon) == 180 - clon

\* yangle = 90 - clat
YAngle(clat) == 90 - clat

\* the locals of a call with arguments c as line 106 leaves them
Locals(c) ==
    [NoLocals EXCEPT !.clon = NormalizeLon(c.clon),
                     !.zangle = ZAngle(NormalizeLon(c.clon)),
                     !.yangle = YAngle(c.clat),
                     !.rotation_angle = c.angle]

\* the angles of the first set_angles_ZYZ, line 109
FirstTriple(l) ==
    Triple(deg2rad(l.zangle), deg2rad(l.yangle), deg2rad(l.rotation_angle))

\* Mutation: the second rotation by +pi/2
SecondTripleOtherWay == Triple(RadZero, <<1, 2>>, RadZero)

\* the angles of the second set_angles_ZYZ, line 118
SecondTriple == Triple(RadZero, RadMinusHalfPi, RadZero)

---------------------------------------------------------------------------
(* The engine's operations on contents, and numpy's conversions *)

\* data2d.astype(np.float64): exact for the narrower types; the contents
\* remember that they were widened
astype_float64(val, dtype) ==
    IF dtype = "float64" THEN val ELSE Append(val, Step("astype", NoTriple, "float64"))

\* self.transform.analys(x)
analys(val) == Append(val, Step("analys", NoTriple, "float64"))

\* self.rotation.apply_real(x), with the angles the operator holds
apply_real(rot, val) == Append(val, Step("apply_real", rot.angles, "float64"))

\* self.transform.synth(x)
synth(val) == Append(val, Step("synth", NoTriple, "float64"))

\* data2d[:] = x: the values are converted to the array's type, which loses
\* the fraction (an integer array) or the precision (float32)
StoreInto(dtype, val) ==
    IF dtype = "float64" THEN val ELSE Append(val, Step("cast", NoTriple, dtype))

\* self.rotation.set_angles_ZYZ(z, y, z) by call who
set_angles_ZYZ(rot, triple, who) ==
    [rot EXCEPT !.angles = triple, !.setter = who]

\* an entry of a call's log of engine operations
Op(name, rot) == [op |-> name, a |-> rot.angles, by |-> rot.setter]

---------------------------------------------------------------------------
(* scalar_center_and_rotate, step by step *)

\* the instance caller t calls
InstanceOf(t) == IF mode = "private" THEN t ELSE 1

\* this call: the caller and the number of its call
Me(t) == <<t, ncalls[t]>>

\* a caller under the mutex discipline takes the mutex for the whole call
MayEnter(t) == mode = "serialized" => lock = 0
Release(t) == IF mode = "serialized" THEN 0 ELSE lock

\* a call may begin: the caller is not in a call, and holds an instance
CanBegin(t) ==
    /\ pc[t] = "idle"
    /\ fp[InstanceOf(t)].state = "ready"
    /\ ncalls[1] + ncalls[2] < MaxCalls
    /\ MayEnter(t)

\* the call begins with arguments c: what every call records
Begin(t, c) ==
    /\ call' = [call EXCEPT ![t] = c]
    /\ field' = [field EXCEPT ![t] = c.data2d]
    /\ pre' = [pre EXCEPT ![t] = [angles |-> rotation[InstanceOf(t)].angles,
                                  field |-> c.data2d]]
    /\ log' = [log EXCEPT ![t] = <<>>]
    /\ ncalls' = [ncalls EXCEPT ![t] = @ + 1]

\* lines 80-99, a check fails: raise ValueError
Reject(t, c) ==
    /\ CanBegin(t)
    /\ Validate(c.data2d, c.clat, c.clon, c.angle) # "none"
    /\ Begin(t, c)
    /\ out' = [out EXCEPT ![t] = [status |-> "raised",
                 err |-> Validate(c.data2d, c.clat, c.clon, c.angle), ret |-> None]]
    /\ loc' = [loc EXCEPT ![t] = NoLocals]
    /\ pc' = [pc EXCEPT ![t] = "done"]
    /\ lock' = IF mode = "serialized" THEN t ELSE lock
    /\ UNCHANGED <<fp, rotation, mode>>

\* lines 80-106, every check passes: the locals are set
Accept(t, c) ==
    /\ CanBegin(t)
    /\ Validate(c.data2d, c.clat, c.clon, c.angle) = "none"
    /\ Begin(t, c)
    /\ loc' = [loc EXCEPT ![t] = Locals(c)]
    /\ out' = [out EXCEPT ![t] = NoOutcome]
    /\ pc' = [pc EXCEPT ![t] = "set1"]
    /\ lock' = IF mode = "serialized" THEN t ELSE lock
    /\ UNCHANGED <<fp, rotation, mode>>

\* Mutation: the call goes on to the transform without setting its angles
SetAngles1Skipped(t) ==
    /\ pc[t] = "set1"
    /\ pc' = [pc EXCEPT ![t] = "analys"]
    /\ UNCHANGED <<fp, rotation, mode, lock, call, loc, field, pre, log, out, ncalls>>

\* line 109: self.rotation.set_angles_ZYZ(deg2rad(zangle), deg2rad(yangle), deg2rad(rotation_angle))
SetAngles1(t) ==
    /\ pc[t] = "set1"
    /\ LET i == InstanceOf(t)
           r == set_angles_ZYZ(rotation[i], FirstTriple(loc[t]), Me(t)) IN
         /\ rotation' = [rotation EXCEPT ![i] = r]
         /\ log' = [log EXCEPT ![t] = Append(@, Op("set_angles_ZYZ", r))]
    /\ pc' = [pc EXCEPT ![t] = "analys"]
    /\ UNCHANGED <<fp, mode, lock, call, loc, field, pre, out, ncalls>>

\* line 112: data2d_sh = self.transform.analys(data2d.astype(np.float64))
Analys(t) ==
    /\ pc[t] = "analys"
    /\ loc' = [loc EXCEPT ![t].data2d_sh =
                 analys(astype_float64(call[t].data2d.val, call[t].data2d.dtype))]
    /\ log' = [log EXCEPT ![t] = Append(@, Op("analys", rotation[InstanceOf(t)]))]
    /\ pc' = [pc EXCEPT ![t] = "apply1"]
    /\ UNCHANGED <<fp, rotation, mode, lock, call, field, pre, out, ncalls>>

\* line 112, a 2-d array that has not the grid's shape: the code has not
\* looked at the shape, and the engine may refuse the array
AnalysRaise(t) ==
    /\ pc[t] = "analys"
    /\ call[t].data2d.shape # "grid"
    /\ out' = [out EXCEPT ![t] = [status |-> "raised", err |-> "engine", ret |-> None]]
    /\ pc' = [pc EXCEPT ![t] = "done"]
    /\ UNCHANGED <<fp, rotation, mode, lock, call, loc, field, pre, log, ncalls>>

\* line 115: data2d_rotated_sh = self.rotation.apply_real(data2d_sh)
Apply1(t) ==
    /\ pc[t] = "apply1"
    /\ loc' = [loc EXCEPT ![t].data2d_rotated_sh =
                 apply_real(rotation[InstanceOf(t)], loc[t].data2d_sh)]
    /\ log' = [log EXCEPT ![t] = Append(@, Op("apply_real", rotation[InstanceOf(t)]))]
    /\ pc' = [pc EXCEPT ![t] = "set2"]
    /\ UNCHANGED <<fp, rotation, mode, lock, call, field, pre, out, ncalls>>

\* line 118: self.rotation.set_angles_ZYZ(0, -np.pi/2, 0)
SetAngles2(t) ==
    /\ pc[t] = "set2"
    /\ LET i == InstanceOf(t)
           r == set_angles_ZYZ(rotation[i], SecondTriple, Me(t)) IN
         /\ rotation' = [rotation EXCEPT ![i] = r]
         /\ log' = [log EXCEPT ![t] = Append(@, Op("set_angles_ZYZ", r))]
    /\ pc' = [pc EXCEPT ![t] = "apply2"]
    /\ UNCHANGED <<fp, mode, lock, call, loc, field, pre, out, ncalls>>

\* line 121: data2d_rotated_sh = self.rotation.apply_real(data2d_rotated_sh)
Apply2(t) ==
    /\ pc[t] = "apply2"
    /\ loc' = [loc EXCEPT ![t].data2d_rotated_sh =
                 apply_real(rotation[InstanceOf(t)], loc[t].data2d_rotated_sh)]
    /\ log' = [log EXCEPT ![t] = Append(@, Op("apply_real", rotation[InstanceOf(t)]))]
    /\ pc' = [pc EXCEPT ![t] = "synth"]
    /\ UNCHANGED <<fp, rotation, mode, lock, call, field, pre, out, ncalls>>

\* what line 126 leaves in the caller's array: data2d is the caller's array
\* only if np.asarray had nothing to convert; an array-like was copied by
\* line 81, and the copy is what is written
StoredField(f, result) ==
    IF f.kind = "ndarray" THEN [f EXCEPT !.val = StoreInto(f.dtype, result)] ELSE f

\* lines 124-130: the inverse transform, written in place or returned.
\* An array of another shape cannot take the grid-shaped result (numpy
\* raises on the assignment)
Synth(t) ==
    /\ pc[t] = "synth"
    /\ LET result == synth(loc[t].data2d_rotated_sh)
           d == call[t].data2d IN
         IF call[t].inplace /\ d.shape # "grid"
         THEN /\ out' = [out EXCEPT ![t] =
                           [status |-> "raised", err |-> "broadcast", ret |-> None]]
              /\ field' = field
         ELSE IF call[t].inplace
         THEN /\ out' = [out EXCEPT ![t] =
                           [status |-> "returned", err |-> "none", ret |-> None]]
              /\ field' = [field EXCEPT ![t] = StoredField(field[t], result)]
         ELSE /\ out' = [out EXCEPT ![t] =
                           [status |-> "returned", err |-> "none", ret |-> Returned(result)]]
              /\ field' = field
    /\ log' = [log EXCEPT ![t] = Append(@, Op("synth", rotation[InstanceOf(t)]))]
    /\ pc' = [pc EXCEPT ![t] = "done"]
    /\ UNCHANGED <<fp, rotation, mode, lock, call, loc, pre, ncalls>>


\* lines 85-99, 127, 130: the call is over (it returned, or its exception
\* reached the caller): its frame is gone, and the caller lets the next in
Return(t) ==
    /\ pc[t] = "done"
    /\ pc' = [pc EXCEPT ![t] = "idle"]
    /\ call' = [call EXCEPT ![t] = NoCall]
    /\ loc' = [loc EXCEPT ![t] = NoLocals]
    /\ pre' = [pre EXCEPT ![t] = [angles |-> NoTriple, field |-> NoArray]]
    /\ log' = [log EXCEPT ![t] = <<>>]
    /\ out' = [out EXCEPT ![t] = NoOutcome]
    /\ lock' = Release(t)
    /\ UNCHANGED <<fp, rotation, mode, field, ncalls>>

---------------------------------------------------------------------------
(* A call run alone, as one function of its arguments *)

\* an operator holding the angles tr
Holding(tr) == [init |-> TRUE, angles |-> tr, setter |-> <<0, 0>>]

\* lines 109-130 with nothing in between: the contents synth returns
RotatedAlone(c) ==
    synth(apply_real(Holding(SecondTriple),
          apply_real(Holding(FirstTriple(Locals(c))),
          analys(astype_float64(c.data2d.val, c.data2d.dtype)))))

\* how a call ended: what it raised or returned, what the caller's array
\* holds, and the angles of its first set_angles_ZYZ
Ended(status, err, ret, f, tr) ==
    [status |-> status, err |-> err, ret |-> ret, field |-> f, first |-> tr]

\* the ways the call with arguments c can end when it runs alone
EndsAlone(c) ==
    LET e == Validate(c.data2d, c.clat, c.clon, c.angle)
        tr == FirstTriple(Locals(c))
        refused == Ended("raised", "engine", None, c.data2d, tr)
        done ==
          IF c.inplace /\ c.data2d.shape # "grid"
          THEN Ended("raised", "broadcast", None, c.data2d, tr)
          ELSE IF c.inplace
          THEN Ended("returned", "none", None, StoredField(c.data2d, RotatedAlone(c)), tr)
          ELSE Ended("returned", "none", Returned(RotatedAlone(c)), c.data2d, tr)
    IN IF e # "none" THEN {Ended("raised", e, None, c.data2d, NoTriple)}
       ELSE IF c.data2d.shape # "grid" THEN {refused, done}
       ELSE {done}

\* how caller t's call, now over, ended
EndOf(t) ==
    Ended(out[t].status, out[t].err, out[t].ret, field[t],
          IF log[t] = <<>> THEN NoTriple ELSE log[t][1].a)

---------------------------------------------------------------------------
(* What a rotation does to a point of the sphere (the engine's part).      *)
(* A point is <<lat, lon>> in degrees; the poles are <<90, 0>>, <<-90, 0>>. *)
(* set_angles_ZYZ(a, b, c) turns the sphere about Z by a, then about Y by *)
(* b, then about Z by c.  A turn about Y keeps the great circle of the    *)
(* meridians 0 and 180 in itself; where it takes a point off that circle  *)
(* is not a whole number of degrees, and is left unknown.                  *)

NorthPole == <<90, 0>>
SouthPole == <<-90, 0>>
Unknown == <<1000, 1000>>

\* the degrees of n*pi/d
rad2deg(r) == (r[1] * 180) \div r[2]

AtPole(p) == p[1] = 90 \/ p[1] = -90

\* about Z: the longitude grows by a
AboutZ(a, p) ==
    IF p = Unknown \/ AtPole(p) THEN p ELSE <<p[1], (p[2] + a) % 360>>

\* the position of a point of the circle: the angle from the north pole
\* towards the meridian 180, in (-180, 180]
OnCircle(p) == IF p[2] % 360 = 180 THEN 90 - p[1] ELSE p[1] - 90
PointAt(th) ==
    LET w == ((th + 179) % 360) - 179 IN
      IF w = 0 THEN NorthPole
      ELSE IF w = 180 THEN SouthPole
      ELSE IF w > 0 THEN <<90 - w, 180>> ELSE <<90 + w, 0>>

\* about Y: a point of the circle moves back along it by b
AboutY(b, p) ==
    IF p = Unknown THEN Unknown
    ELSE IF AtPole(p) \/ p[2] % 360 \in {0, 180} THEN PointAt(OnCircle(p) - b)
    ELSE IF b % 360 = 0 THEN p
    ELSE Unknown

\* where the operator set to tr takes the content at p
Carry(tr, p) ==
    AboutZ(rad2deg(tr[3]), AboutY(rad2deg(tr[2]), AboutZ(rad2deg(tr[1]), p)))

\* the point (lat, lon) of the sphere, whatever turn the longitude counts
Point(lat, lon) == IF lat = 90 \/ lat = -90 THEN <<lat, 0>> ELSE <<lat, lon % 360>>

---------------------------------------------------------------------------
(* The inputs the model draws *)

\* the array of the documented kind: 2-d, of the grid's shape, float64
Plain == Array(2, "grid", "float64", "ndarray")

\* the other arrays: 1-d, 3-d, 2-d of another shape, other element types,
\* and a nested list
OddArrays ==
    {Array(1, "other", "float64", "ndarray"), Array(3, "other", "float64", "ndarray"),
     Array(2, "other", "float64", "ndarray"), Array(2, "grid", "int32", "ndarray"),
     Array(2, "grid", "float32", "ndarray"), Array(2, "grid", "float64", "list")}

ClatVals == {-91, -90, 30, 90, 95}
ClonVals == {-361, -360, -30, 200, 330, 360, 361}
AngleVals == {-1, 0, 90, 360, 400}

Args(arrays, clats, clons, angles, inplaces) ==
    [data2d : arrays, clat : clats, clon : clons, angle : angles, inplace : inplaces]

\* the calls of the one caller: every request on the plain array, and a few
\* requests on the other arrays and on the array the caller already holds
PlainCalls == Args({Plain}, ClatVals, ClonVals, AngleVals, BOOLEAN)
OtherCalls(t) == Args(OddArrays \cup {field[t]}, {30, 95}, {200, 361}, {0, 400}, BOOLEAN)

\* the calls of two callers at once
ConcCalls(t) ==
    Args({Plain, Array(2, "other", "float64", "ndarray")}, {30}, {200}, {0}, {FALSE})
      \cup Args({Plain}, {-90, 95}, {-30}, {0}, {FALSE})

\* the latitude arrays a caller may claim for nlat samples: the engine's
\* axes south to north, shifted in the first sample by 0, 100 or 1000
\* micro-degrees, and the regular axis north to south
LatArrays(nlat) ==
    {[Reverse(EngineLat(g, nlat)) EXCEPT ![1] = @ + e] :
        g \in {"gaussian", "regular"}, e \in {0, 100, 1000}}
      \cup {RegularLat(nlat)}

GridTypes == {"gaussian", "regular"}

---------------------------------------------------------------------------
(* The specifications *)

InitWith(modes) ==
    /\ mode \in modes
    /\ fp = [i \in Instances |-> NoInstance]
    /\ rotation = [i \in Instances |-> NoRotation]
    /\ lock = 0
    /\ pc = [t \in Threads |-> "idle"]
    /\ call = [t \in Threads |-> NoCall]
    /\ loc = [t \in Threads |-> NoLocals]
    /\ field = [t \in Threads |-> Plain]
    /\ pre = [t \in Threads |-> [angles |-> NoTriple, field |-> NoArray]]
    /\ log = [t \in Threads |-> <<>>]
    /\ out = [t \in Threads |-> NoOutcome]
    /\ ncalls = [t \in Threads |-> 0]

Steps(t) ==
    \/ SetAngles1(t)
    \/ Analys(t)
    \/ AnalysRaise(t)
    \/ Apply1(t)
    \/ SetAngles2(t)
    \/ Apply2(t)
    \/ Synth(t)
    \/ Return(t)

\* one caller, one instance: every sequence of calls is serial
Init == InitWith({"serialized"})

Next ==
    \/ \E n \in 2..MaxNLat : \E lat \in LatArrays(n) : \E g \in GridTypes :
          Construct(1, lat, g)
    \/ \E c \in PlainCalls : Reject(1, c)
    \/ \E c \in PlainCalls : Accept(1, c)
    \/ \E c \in OtherCalls(1) : Reject(1, c)
    \/ \E c \in OtherCalls(1) : Accept(1, c)
    \/ Steps(1)

Spec == Init /\ [][Next]_vars

\* two callers: on one instance freely (shared), on one instance under a
\* mutex (serialized), or each on an instance of its own (private)
InitConc == InitWith({"shared", "serialized", "private"})

NextConc ==
    \/ \E i \in Instances : \E g \in GridTypes :
          Construct(i, Reverse(RegularLat(2)), g)
    \/ \E t \in Threads : \E c \in ConcCalls(t) : Reject(t, c)
    \/ \E t \in Threads : \E c \in ConcCalls(t) : Accept(t, c)
    \/ \E t \in Threads : Steps(t)

SpecConc == InitConc /\ [][NextConc]_vars

---------------------------------------------------------------------------
(* Properties *)

\* caller t is in a call, or its call is just over
InCall(t) == pc[t] # "idle"

\* the call was turned down by one of the checks of lines 83-99
Rejected(t) == InCall(t) /\ out[t].err \in ShapeError \cup RangeError

\* the call passed the checks and reached the rotation step
Passed(t) == InCall(t) /\ out[t].err \notin ShapeError \cup RangeError

\* the documented bounds, stated on the arguments as the caller passed them
BadLat(c) == c.clat > 90 \/ c.clat < -90
BadTwist(c) == c.angle < 0 \/ c.angle > 360
BadLon(c) == c.clon < -360 \/ c.clon > 360
BadDim(c) == c.data2d.ndim # 2

\* C1: a call that a check turns down has done no engine work: it has set
\* no angles and run no transform or rotation, the operator holds the
\* angles it held before the call, and the caller's array is as it was,
\* in place or not; and no call with an argument out of its bounds ever
\* gets to any engine work.
C1_RejectedCallDidNothing ==
    \A t \in Threads :
      (Rejected(t) \/ (InCall(t) /\ (BadDim(call[t]) \/ BadLon(call[t])
                                      \/ BadLat(call[t]) \/ BadTwist(call[t]))))
        => /\ out[t].status = "raised"
           /\ log[t] = <<>>
           /\ rotation[InstanceOf(t)].angles = pre[t].angles
           /\ field[t] = pre[t].field

\* a call in place is turned down for its twist while the operator holds
\* the angles an earlier call left
C1_Witness ==
    /\ Rejected(1) /\ call[1].inplace /\ BadTwist(call[1])
    /\ rotation[1].angles = SecondTriple

\* C2: for a 2-d array and a longitude in range, the call raises a range
\* error iff clat > 90 or clat < -90 or twist < 0 or twist > 360.
C2_RangeErrorIff ==
    \A t \in Threads :
      (InCall(t) /\ ~BadDim(call[t]) /\ ~BadLon(call[t]))
        => ((out[t].status = "raised" /\ out[t].err \in RangeError)
              <=> (BadLat(call[t]) \/ BadTwist(call[t])))

\* the boundary values are accepted: the call with clat = -90 and
\* twist = 360 returned
C2_Witness ==
    /\ pc[1] = "done" /\ out[1].status = "returned"
    /\ call[1].clat = -90 /\ call[1].angle = 360

\* C3: a call with clon in [-360, 0) ends as the call with clon + 360 does
\* (turned down or not, the same first triple, the same array and value);
\* a clon below 0 or above 360 after the one shift is turned down, with a
\* range error when the array is 2-d.
C3_LongitudeShift ==
    \A t \in Threads :
      pc[t] = "done" =>
        /\ (call[t].clon >= -360 /\ call[t].clon < 0)
             => EndOf(t) \in EndsAlone([call[t] EXCEPT !.clon = @ + 360])
        /\ (call[t].clon < -360 \/ call[t].clon > 360)
             => /\ out[t].status = "raised" /\ log[t] = <<>>
                /\ ~BadDim(call[t]) => out[t].err \in RangeError

\* the call with clon = -30 returned, in place
C3_Witness ==
    /\ pc[1] = "done" /\ out[1].status = "returned"
    /\ call[1].clon = -30 /\ call[1].inplace
    /\ log[1][1].a = Triple(deg2rad(-150), deg2rad(60), deg2rad(0))

\* C4, as stated: a request that reaches the rotation step has its
\* latitude in [-90, 90], its longitude in [0, 360) and its twist in
\* [0, 360).
C4_HalfOpen ==
    \A t \in Threads :
      Passed(t) =>
        /\ call[t].clat >= -90 /\ call[t].clat <= 90
        /\ loc[t].clon >= 0 /\ loc[t].clon < 360
        /\ loc[t].rotation_angle >= 0 /\ loc[t].rotation_angle < 360

\* C4, amended: a request that reaches the rotation step has its latitude
\* in [-90, 90], its longitude in [0, 360] and its twist in [0, 360], both
\* ends included, and these are the values the first triple is set from.
C4_Closed ==
    \A t \in Threads :
      Passed(t) =>
        /\ call[t].clat >= -90 /\ call[t].clat <= 90
        /\ loc[t].clon >= 0 /\ loc[t].clon <= 360
        /\ loc[t].rotation_angle >= 0 /\ loc[t].rotation_angle <= 360
        /\ loc[t].rotation_angle = call[t].angle
        /\ loc[t].clon \in {call[t].clon, call[t].clon + 360}
        /\ log[t] # <<>> =>
             log[t][1].a = Triple(deg2rad(180 - loc[t].clon),
                                  deg2rad(90 - call[t].clat),
                                  deg2rad(loc[t].rotation_angle))

\* a call sets its first triple from the longitude 360 and the twist 360
C4_Witness ==
    /\ Passed(1) /\ log[1] # <<>>
    /\ loc[1].clon = 360 /\ loc[1].rotation_angle = 360

\* the array is not one the grid can hold: not 2-d, or 2-d of another shape
WrongShape(c) == BadDim(c) \/ c.data2d.shape # "grid"

\* C5: a call with an array that is not 2-d is turned down with a shape
\* error, a call with a 2-d array of another shape than the grid's is
\* turned down too, and both before any engine work.
C5_WrongShapeRejectedFirst ==
    \A t \in Threads :
      (InCall(t) /\ WrongShape(call[t]))
        => /\ log[t] = <<>>
           /\ pc[t] = "done" => out[t].status = "raised"
           /\ BadDim(call[t]) => out[t].err \in ShapeError

\* C6: a call that returned in place returned None and left in the
\* caller's array the values the same call returns when not in place; a
\* call not in place left the caller's array as it was.
C6_InPlaceEqualsCopy ==
    \A t \in Threads :
      (pc[t] = "done" /\ out[t].status = "returned") =>
        IF call[t].inplace
        THEN out[t].ret = None /\ field[t].val = RotatedAlone(call[t])
        ELSE out[t].ret = Returned(RotatedAlone(call[t])) /\ field[t] = pre[t].field

\* the claimed latitudes match the engine's, read backwards, one by one:
\* |engine - claimed| <= 1e-8 + 1e-5*|claimed| degrees (in micro-degrees,
\* times 1e5; no difference of 1000 or more can pass)
MatchesEngineReversed(inst) ==
    \A k \in 1..inst.nlat :
      LET mine == inst.lat[k]
          engine == EngineLat(inst.gridtype, inst.nlat)[inst.nlat + 1 - k]
      IN  /\ Abs(engine - mine) < 1000
          /\ 100000 * Abs(engine - mine) <= 1000 + Abs(mine)

\* C7: the construction succeeds iff the claimed latitudes match the
\* engine's reversed latitudes within the tolerance; when it fails there is
\* no instance to call and no rotation operator was made.
C7_GridValidation ==
    \A i \in Instances :
      fp[i].state # "none" =>
        /\ fp[i].state = "ready" <=> MatchesEngineReversed(fp[i])
        /\ fp[i].state = "ready" <=> rotation[i].init
        /\ \A t \in Threads :
             (InCall(t) /\ InstanceOf(t) = i) => fp[i].state = "ready"

\* gaussian latitudes claimed for a regular grid: the construction failed
C7_Witness ==
    /\ fp[1].state = "failed" /\ ~rotation[1].init
    /\ fp[1].gridtype = "regular" /\ fp[1].lat = Reverse(GaussianLat(2))

\* the rotation applications of caller t's call
Applications(t) == {k \in 1..Len(log[t]) : log[t][k].op = "apply_real"}

\* a rotation of t's call ran with angles another call had set
ForeignAngles(t) == \E k \in Applications(t) : log[t][k].by # Me(t)

\* C8: when the callers take turns on the instance, or each has its own,
\* every rotation of a call runs with the angles that call set, and the
\* call returns what it returns alone.  (That two callers on one instance
\* without turns can reach the contrary is the witness.)
C8_SafeWhenSerializedOrPrivate ==
    mode \in {"serialized", "private"} =>
      \A t \in Threads :
        /\ ~ForeignAngles(t)
        /\ (pc[t] = "done" /\ out[t].status = "returned")
             => out[t].ret = Returned(RotatedAlone(call[t]))

\* two callers share the instance: a call has run a rotation with the
\* other call's angles and returned something else than it returns alone
C8_Witness ==
    /\ mode = "shared"
    /\ \E t \in Threads :
         /\ pc[t] = "done" /\ out[t].status = "returned"
         /\ \E k \in Applications(t) : log[t][k].by[1] \in Threads \ {t}
         /\ out[t].ret # Returned(RotatedAlone(call[t]))

\* the canonical position: on the equator, at the longitude 180
Reference == <<0, 180>>

\* C9: with twist 0, the first rotation of a call takes the content at
\* (clat, clon) to the pole, and the second takes it from there to the
\* one reference position on the equator, whatever the target.
C9_Centering ==
    \A t \in Threads :
      (Passed(t) /\ call[t].angle = 0 /\ Cardinality(Applications(t)) = 2) =>
        LET target == Point(call[t].clat, call[t].clon)
            first == Carry(log[t][3].a, target)
        IN  /\ first = NorthPole
            /\ Carry(log[t][5].a, first) = Reference

\* the call centred on (30, 200) has run both rotations
C9_Witness ==
    /\ pc[1] = "done" /\ out[1].status = "returned"
    /\ call[1].clat = 30 /\ call[1].clon = 200 /\ call[1].angle = 0
    /\ Carry(log[1][3].a, <<30, 200>>) = NorthPole
    /\ Carry(log[1][5].a, NorthPole) = <<0, 180>>

\* the engine operations of a complete call with arguments c by call who
ExpectedLog(c, who) ==
    LET lon == IF c.clon < 0 THEN c.clon + 360 ELSE c.clon
        t1 == <<deg2rad(180 - lon), deg2rad(90 - c.clat), deg2rad(c.angle)>>
        t2 == <<RadZero, RadMinusHalfPi, RadZero>>
        e(op, tr) == [op |-> op, a |-> tr, by |-> who]
    IN  <<e("set_angles_ZYZ", t1), e("analys", t1), e("apply_real", t1),
          e("set_angles_ZYZ", t2), e("apply_real", t2), e("synth", t2)>>

\* C10: in a serial sequence of calls, a call that passed the checks runs
\* the engine in the one order set, forward transform, rotation, set,
\* rotation, inverse transform, each rotation with angles the call itself
\* set (the first triple from its own request, the second (0, -pi/2, 0));
\* what it returns does not depend on the angles earlier calls left, and
\* when it is over the operator holds (0, -pi/2, 0).
C10_TwoRotationsOwnAngles ==
    \A t \in Threads :
      Passed(t) =>
        /\ log[t] = SubSeq(ExpectedLog(call[t], Me(t)), 1, Len(log[t]))
        /\ (pc[t] = "done" /\ out[t].err # "engine") =>
             /\ Len(log[t]) = 6
             /\ rotation[InstanceOf(t)].angles = <<RadZero, RadMinusHalfPi, RadZero>>
        /\ (pc[t] = "done" /\ out[t].status = "returned" /\ ~call[t].inplace) =>
             out[t].ret = Returned(RotatedAlone(call[t]))

\* a second call, with another request, is over: the operator held the
\* first call's (0, -pi/2, 0) when it began
C10_Witness ==
    /\ pc[1] = "done" /\ out[1].status = "returned" /\ ncalls[1] = 2
    /\ pre[1].angles = <<RadZero, RadMinusHalfPi, RadZero>>
    /\ call[1].clat = -90 /\ call[1].clon = 330 /\ call[1].angle = 90
    /\ Len(log[1]) = 6

=============================================================================
